---- MODULE Spec2Model ----
(***************************************************************************)
(* Model of the surrealdb.js client: the Emitter event hub                 *)
(* (src/src/classes/emitter.ts) and the Surreal client built on it         *)
(* (src/unnamed/part_000: connection lifecycle, auth re-assertion, RPC     *)
(* correlation, result shaping).                                           *)
(*                                                                         *)
(* The specifications share the variables:                                 *)
(*   SpecHub  - the Emitter alone, driven by on / once / emit              *)
(*   Spec     - the Surreal client against a transport and a peer          *)
(*   FairSpec - Spec with the fairness of the JavaScript job queue         *)
(*   SpecNotify - the client with notify subscribers and notify messages   *)
(*   SpecOut  - the result shaping of the record methods                   *)
(*   SpecLife - the client with listeners of open, opened, close, closed   *)
(*   SpecStray - the client and a peer that sends unexpected responses     *)
(*   SpecAuth - the client used for signup, signin, invalidate             *)
(*   SpecReauth - signing in and out over closes and reconnections         *)
(***************************************************************************)
EXTENDS Integers, Sequences, FiniteSets, TLC

VARIABLES
    events,      \* Emitter.#events: key -> listeners in insertion order
    eventsOnce,  \* Emitter.#eventsOnce: key -> listeners in insertion order
    armed,       \* user listeners whose body will still call emit once
    log,         \* invocations of user listeners, in order
    emitted,     \* key -> number of emit calls made for it (nested included)
    regs,        \* listener -> how and when the user registered it
    lastEmit,    \* SpecHub: the last top-level emit call
    ws,          \* Surreal.#ws: the Socket (made by connect), its status, ready
    token,       \* Surreal.#token ("" when unset)
    attempted,   \* Surreal.#attempted: index into attempts, 0 when undefined
    attempts,    \* the promises made by #init, in order of creation
    calls,       \* the #send invocations, in order of their guid
    wire,        \* envelopes the peer holds unanswered on this connection
    pinger,      \* Pinger running
    lastNotify,  \* the last inbound notify message
    out,         \* SpecOut: a method, its target, the response and what it returns
    supply       \* how many ids guid() hands out in this run

hubVars == <<events, eventsOnce, armed, log, emitted, regs, lastEmit>>

clientVars ==
    <<ws, token, attempted, attempts, calls, wire, pinger, lastNotify, out,
      supply>>

vars == <<hubVars, clientVars>>

----------------------------------------------------------------------------
(* Bounds *)

MaxListeners == 3
MaxEmits == 2
MaxCalls == 2
MaxAttempts == 2
MaxOpens == 2
MaxNotify == 1
MaxParams == 2
MaxThingLen == 2
MaxRows == 2

HubKeys == {"k1", "k2"}
Behaviours == {"ok", "throw", "emit"}
Tokens == {"t1", "t2"}
Notifications == {"n1", "n2"}
UserMethods == {"query", "signin"}

\* guid(): a fresh identifier for every call
Guid(c) == "id" \o ToString(c)

LifecycleKeys == {"open", "opened", "close", "closed"}

\* the ids of the calls, and one more for the last attempt of SpecReauth
Ids == {Guid(c) : c \in 1..(MaxCalls + 1)}

Keys == HubKeys \cup LifecycleKeys \cup {"notify"} \cup Ids

NoReg == [kind |-> "none", key |-> "", at |-> 0, beh |-> ""]

\* an inbound message after JSON.parse: a response {id, result | error} or a
\* notification {method: "notify", params}
Message(id, method, error, result, params) ==
    [id |-> id, method |-> method, error |-> error, result |-> result,
     params |-> params]

NoMsg == Message("", "", "", "", <<>>)

----------------------------------------------------------------------------
(* Emitter *)

Range(s) == {s[i] : i \in DOMAIN s}

\* Set.prototype.add on an insertion-ordered Set
SetAdd(s, x) == IF x \in Range(s) THEN s ELSE Append(s, x)

UserListener(n, b) == [kind |-> "user", n |-> n, beh |-> b]

\* the listener made by once(emitter, id): (...args) => res(args)
Resolver(c) == [kind |-> "res", n |-> c, beh |-> "ok"]

\* Emitter.on
on(ev, eventName, listener) == [ev EXCEPT ![eventName] = SetAdd(@, listener)]

\* Emitter.once
once(evOnce, eventName, listener) ==
    [evOnce EXCEPT ![eventName] = SetAdd(@, listener)]

RECURSIVE emit(_, _, _)
RECURSIVE forEach(_, _, _, _, _)

\* listener.apply(this, args): the listener's body
apply(st, l, eventName, arg) ==
    LET s1 == IF l.kind = "user"
              THEN [st EXCEPT !.log = Append(@, [l |-> l.n, key |-> eventName,
                                                 arg |-> arg])]
              ELSE st
    IN  CASE l.kind = "res" ->
               \* res(args) of the promise made by nextEvent: a promise
               \* settles once, later calls of res change nothing
               [s1 EXCEPT !.got[l.n] = IF @ = NoMsg THEN arg ELSE @]
          [] l.kind = "user" /\ l.beh = "throw" ->
               [s1 EXCEPT !.thrown = TRUE]
          [] l.kind = "user" /\ l.beh = "emit" /\ l.n \in s1.armed ->
               emit([s1 EXCEPT !.armed = @ \ {l.n}], eventName, arg)
          [] OTHER -> s1

\* Set.prototype.forEach over the Set object held when the loop started;
\* an exception of a listener leaves the loop
forEach(st, set, i, eventName, arg) ==
    IF st.thrown \/ i > Len(set)
    THEN st
    ELSE forEach(apply(st, set[i], eventName, arg), set, i + 1, eventName, arg)

\* Emitter.emit
emit(st, eventName, arg) ==
    LET s0 == [st EXCEPT !.emitted[eventName] = @ + 1]
        s1 == forEach(s0, s0.events[eventName], 1, eventName, arg)
        s2 == forEach(s1, s1.eventsOnce[eventName], 1, eventName, arg)
    IN  IF s2.thrown
        THEN s2
        ELSE [s2 EXCEPT !.eventsOnce[eventName] = <<>>]

\* the Emitter's fields, and what its listeners reach, as one value
HubState ==
    [events |-> events, eventsOnce |-> eventsOnce, armed |-> armed,
     log |-> log, emitted |-> emitted, thrown |-> FALSE,
     got |-> [c \in DOMAIN calls |-> calls[c].got]]

----------------------------------------------------------------------------
(* SpecHub: the Emitter driven from outside *)

ListenerIds == 1..MaxListeners

InitEmitter ==
    /\ events = [k \in Keys |-> <<>>]
    /\ eventsOnce = [k \in Keys |-> <<>>]
    /\ armed = {}
    /\ log = <<>>
    /\ emitted = [k \in Keys |-> 0]
    /\ regs = [n \in ListenerIds |-> NoReg]
    /\ lastEmit = [no |-> 0, key |-> "k1", on |-> <<>>, once |-> <<>>,
                   from |-> 0, threw |-> FALSE]

\* JavaScript values of a response's result and of what a method returns
Undefined == [type |-> "undefined", rows |-> <<>>]

Object(r) == [type |-> "object", rows |-> <<r>>]

Array(rows) == [type |-> "array", rows |-> rows]

NoRet == [kind |-> "", value |-> Undefined, err |-> "", prefix |-> "",
          target |-> <<>>]

NoOut == [phase |-> "", method |-> "", thing |-> <<>>,
          res |-> [error |-> "", result |-> Undefined], ret |-> NoRet]

InitSurreal ==
    /\ ws = [made |-> FALSE, status |-> "NOT_CONNECTED", ready |-> FALSE]
    /\ attempted = 0
    /\ attempts = <<>>
    /\ calls = <<>>
    /\ wire = {}
    /\ pinger = FALSE
    /\ lastNotify = [no |-> 0, params |-> <<>>, from |-> 0, subs |-> <<>>]

InitClient == InitSurreal /\ token = "" /\ out = NoOut /\ supply = MaxCalls

InitHub == InitEmitter /\ InitClient

\* listeners are named in the order they are registered
Fresh(n) ==
    /\ regs[n].kind = "none"
    /\ \A m \in ListenerIds : m < n => regs[m].kind # "none"

HubOn(k, n, b) ==
    /\ Fresh(n)
    /\ events' = on(events, k, UserListener(n, b))
    /\ regs' = [regs EXCEPT ![n] = [kind |-> "on", key |-> k, at |-> emitted[k],
                                    beh |-> b]]
    /\ armed' = IF b = "emit" THEN armed \cup {n} ELSE armed
    /\ UNCHANGED <<eventsOnce, log, emitted, lastEmit, clientVars>>

HubOnce(k, n, b) ==
    /\ Fresh(n)
    /\ eventsOnce' = once(eventsOnce, k, UserListener(n, b))
    /\ regs' = [regs EXCEPT ![n] = [kind |-> "once", key |-> k,
                                    at |-> emitted[k], beh |-> b]]
    /\ armed' = IF b = "emit" THEN armed \cup {n} ELSE armed
    /\ UNCHANGED <<events, log, emitted, lastEmit, clientVars>>

HubEmit(k) ==
    /\ lastEmit.no < MaxEmits
    /\ LET no == lastEmit.no + 1
           st == emit(HubState, k, no)
       IN  /\ events' = st.events
           /\ eventsOnce' = st.eventsOnce
           /\ armed' = st.armed
           /\ log' = st.log
           /\ emitted' = st.emitted
           /\ lastEmit' = [no |-> no, key |-> k,
                           on |-> events[k], once |-> eventsOnce[k],
                           from |-> Len(log), threw |-> st.thrown]
    /\ UNCHANGED <<regs, clientVars>>

NextHub ==
    \/ \E k \in HubKeys, n \in ListenerIds, b \in Behaviours : HubOn(k, n, b)
    \/ \E k \in HubKeys, n \in ListenerIds, b \in Behaviours : HubOnce(k, n, b)
    \/ \E k \in HubKeys : HubEmit(k)

SpecHub == InitHub /\ [][NextHub]_vars

----------------------------------------------------------------------------
(* Claims about the Emitter, checked under SpecHub *)

\* number of times listener n was invoked
Invocations(n) == Cardinality({i \in DOMAIN log : log[i].l = n})

\* number of emit calls for n's key since n was registered
EmitsSince(n) == emitted[regs[n].key] - regs[n].at

\* the listeners invoked by the last top-level emit call, in order
LastEmitTrace == [i \in 1..(Len(log) - lastEmit.from) |-> log[lastEmit.from + i].l]

\* C6: a persistent listener is invoked on every emit to its key after it was
\* registered; a one-shot listener is invoked exactly once in total, by the
\* first emit to its key after it was registered, and by no later one.
C6_ListenersFire ==
    \A n \in ListenerIds :
        /\ regs[n].kind = "on" => Invocations(n) = EmitsSince(n)
        /\ regs[n].kind = "once" =>
              /\ Invocations(n) = (IF EmitsSince(n) > 0 THEN 1 ELSE 0)
              /\ \A i \in DOMAIN log :
                    log[i].l = n => \A j \in 1..(i - 1) : log[j].l # n

\* C7: when a listener throws during emit(key), every other listener of the
\* key is still invoked by that emit, the one-shot set of the key is cleared
\* and emit returns normally.
C7_ThrowIsolated ==
    (lastEmit.no > 0 /\ \E n \in Range(LastEmitTrace) : regs[n].beh = "throw") =>
        /\ ~lastEmit.threw
        /\ \A l \in Range(lastEmit.on) \cup Range(lastEmit.once) :
              l.n \in Range(LastEmitTrace)
        /\ eventsOnce[lastEmit.key] = <<>>

\* the listeners invoked in this step, in order
Invoked == [i \in 1..(Len(log') - Len(log)) |-> log'[Len(log) + i].l]

\* the place of listener l's first invocation in this step, 0 if none
First(l) ==
    IF \E i \in DOMAIN Invoked : Invoked[i] = l.n
    THEN CHOOSE i \in DOMAIN Invoked :
             Invoked[i] = l.n /\ \A j \in 1..(i - 1) : Invoked[j] # l.n
    ELSE 0

\* the listeners of sequence s are all invoked, in the order of s
InSequence(s) ==
    /\ \A i \in DOMAIN s : First(s[i]) # 0
    /\ \A i, j \in DOMAIN s : i < j => First(s[i]) < First(s[j])

\* C17: emit(key) invokes the persistent listeners of key in the order of
\* their registration, then the one-shot listeners of key in the order of
\* theirs, and leaves the one-shot set of key empty; the listeners of other
\* keys are neither invoked nor removed.
C17_EmitOrder ==
    [][\A k \in HubKeys :
         HubEmit(k) =>
             /\ InSequence(events[k]) /\ InSequence(eventsOnce[k])
             /\ \A p \in Range(events[k]), o \in Range(eventsOnce[k]) :
                   First(p) < First(o)
             /\ eventsOnce'[k] = <<>>
             /\ \A i \in DOMAIN Invoked : regs[Invoked[i]].key = k
             /\ \A k2 \in HubKeys \ {k} :
                   events'[k2] = events[k2] /\ eventsOnce'[k2] = eventsOnce[k2]
             /\ events'[k] = events[k]]_vars

----------------------------------------------------------------------------
(* Surreal: the client *)

\* Surreal.status
status == IF ~ws.made THEN "NOT_CONNECTED" ELSE ws.status

tokenSetterAlways == TRUE

\* the condition of the token setter under which it calls #init
tokenSetterInits == status # "NOT_CONNECTED"

attemptRejects(failed) == IF failed THEN "rejected" ELSE "settled"

authenticateWaitsForAttempt == TRUE

\* the wait argument authenticate passes to #send
authenticateWait == FALSE

\* what the catch clause of #init makes of the authenticate call's result:
\* the promise of the attempt is fulfilled either way
attemptSettles(failed) == "settled"

\* the key under which the message handler publishes a response
messageKey(d) == d.id

lastGuid(c) == Guid(Len(calls))

\* the id #send hands to nextEvent: the one it generated for this call
listenKey(c) == Guid(c)

\* the attempt the second await of wait() waits for: #attempted, read when the
\* first await (ws.ready) is over
awaitedAttempt == attempted

UsageMessage == "You have to call .connect before any other method!"

\* jobs of the promise queue that can run now; the transport's events and the
\* pinger's timer are delivered only when there is none
readyJob(c) == calls[c].pc = "ready" /\ ws.ready

attemptedJob(c) ==
    /\ calls[c].pc = "attempted"
    /\ \/ calls[c].awaited = 0
       \/ attempts[calls[c].awaited].state \in {"settled", "rejected"}

finishJob(c) == calls[c].pc = "response" /\ calls[c].got # NoMsg

JobPending ==
    \/ \E a \in DOMAIN attempts : attempts[a].state = "scheduled"
    \/ \E c \in DOMAIN calls : readyJob(c) \/ attemptedJob(c) \/ finishJob(c)

\* the body of the promise made by #init in the open handler is the first job
\* after the handler: no code of the user runs in between
UserMayRun ==
    \A a \in DOMAIN attempts :
        ~(attempts[a].state = "scheduled" /\ attempts[a].origin = "open")

\* the attempts whose body has not run yet
Scheduled == {a \in DOMAIN attempts : attempts[a].state = "scheduled"}

\* a Socket that is connecting will open: its attempt and the call of that
\* attempt are counted before they exist
Reserved == IF ws.made /\ ws.status = "CONNECTING" THEN 1 ELSE 0

\* every scheduled attempt may still make its authenticate call
Room == Len(calls) + Cardinality(Scheduled) + Reserved < supply

\* a Socket may start connecting: the open that follows has its room
OpenRoom ==
    /\ emitted["open"] < MaxOpens
    /\ Len(calls) + Cardinality(Scheduled) < supply
    /\ Len(attempts) < MaxAttempts

\* Surreal.#send up to its first await
send(method, param, wait, owner, att) ==
    [method |-> method, param |-> param, wait |-> wait, owner |-> owner,
     att |-> att, awaited |-> 0, got |-> NoMsg, orphan |-> FALSE,
     pc |-> IF ws.made THEN "ready" ELSE "failed",
     err |-> IF ws.made THEN "" ELSE IF wait THEN "Error" ELSE "TypeError",
     msg |-> IF ws.made \/ ~wait THEN "" ELSE UsageMessage]

\* Surreal.#init: the promise is made now, its body runs as a job
init(origin) ==
    /\ Len(attempts) + (IF origin = "open" THEN 0 ELSE Reserved) < MaxAttempts
    /\ attempts' = Append(attempts,
                          [state |-> "scheduled", origin |-> origin, call |-> 0,
                           \* recorded for the claims: the token stored, the
                           \* status and the number of opens when it was made
                           tok |-> token', at |-> status,
                           no |-> emitted["open"]])
    /\ attempted' = Len(attempts) + 1

\* Surreal.connect: makes the Socket and the Pinger, registers the handlers,
\* opens the socket
Connect ==
    /\ ~ws.made
    /\ OpenRoom
    /\ ws' = [made |-> TRUE, status |-> "CONNECTING", ready |-> FALSE]
    /\ UNCHANGED <<hubVars, token, attempted, attempts, calls, wire, pinger,
                   lastNotify, out, supply>>

\* set token(token)
SetToken(t) ==
    /\ UserMayRun
    /\ token' = t
    /\ IF tokenSetterInits
       THEN Room /\ init("token")
       ELSE UNCHANGED <<attempted, attempts, out, supply>>
    /\ UNCHANGED <<hubVars, ws, calls, wire, pinger, lastNotify, out, supply>>

\* query, signin, ...: #send(method, params) with wait = true
Call(method) ==
    /\ UserMayRun
    /\ Room
    /\ calls' = Append(calls, send(method, "", TRUE, "user", 0))
    /\ UNCHANGED <<hubVars, ws, token, attempted, attempts, wire, pinger,
                   lastNotify, out, supply>>

\* Surreal.authenticate called by the user
Authenticate(t) ==
    /\ UserMayRun
    /\ Room
    /\ token' = t
    /\ calls' = Append(calls,
                       send("authenticate", t, authenticateWait, "user", 0))
    /\ UNCHANGED <<hubVars, ws, attempted, attempts, wire, pinger, lastNotify,
                   out, supply>>

\* on("notify", listener)
Subscribe(n, b) == UserMayRun /\ HubOn("notify", n, b)

\* once("notify", listener)
SubscribeOnce(n, b) == UserMayRun /\ HubOnce("notify", n, b)

\* on("open" | "opened" | "close" | "closed", listener)
Listen(k, n, b) == UserMayRun /\ HubOn(k, n, b)

\* the fields of the Emitter after a handler ran
SetHub(st) ==
    /\ events' = st.events
    /\ eventsOnce' = st.eventsOnce
    /\ armed' = st.armed
    /\ log' = st.log
    /\ emitted' = st.emitted

\* the body of the promise made by #init
AttemptRun(a) ==
    /\ attempts[a].state = "scheduled"
    /\ IF token = ""
       THEN /\ attempts' = [attempts EXCEPT ![a].state = "settled"]
            /\ UNCHANGED calls
       ELSE \* this.authenticate(this.#token), up to the first await of #send
            /\ calls' = Append(calls,
                               send("authenticate", token, authenticateWait,
                                    "attempt", a))
            /\ attempts' = [attempts EXCEPT ![a].state = "auth",
                                            ![a].call = Len(calls) + 1]
    /\ UNCHANGED <<hubVars, ws, token, attempted, wire, pinger, lastNotify,
                   out, supply>>

nextEventLater(evOnce, c) == evOnce

\* Emitter.nextEvent called by #send: the executor of the promise runs at
\* once and registers the one-shot listener
nextEvent(evOnce, c) == once(evOnce, listenKey(c), Resolver(c))

\* #send: this.#ws.send(JSON.stringify({id, method, params})), then
\* this.nextEvent(id), which registers the one-shot listener
transmit(c) ==
    /\ wire' = IF ws.status = "CONNECTED" THEN wire \cup {c} ELSE wire
    /\ eventsOnce' = nextEvent(eventsOnce, c)

\* #send after "await this.#ws.ready" (its own, or the one of wait())
CallReady(c) ==
    /\ readyJob(c)
    /\ IF calls[c].wait
       THEN /\ calls' = [calls EXCEPT ![c].pc = "attempted",
                                      ![c].awaited = awaitedAttempt]
            /\ UNCHANGED <<wire, eventsOnce, out, supply>>
       ELSE /\ calls' = [calls EXCEPT ![c].pc = "response"]
            /\ transmit(c)
    /\ UNCHANGED <<events, armed, log, emitted, regs, lastEmit, ws, token,
                   attempted, attempts, pinger, lastNotify, out, supply>>

\* #send after "await this.#attempted" of wait()
CallAttempted(c) ==
    /\ attemptedJob(c)
    /\ IF calls[c].awaited # 0 /\ attempts[calls[c].awaited].state = "rejected"
       THEN /\ calls' = [calls EXCEPT ![c].pc = "failed",
                                      ![c].err = "AuthenticationError",
                                      ![c].msg = "denied"]
            /\ UNCHANGED <<wire, eventsOnce, out, supply>>
       ELSE /\ calls' = [calls EXCEPT ![c].pc = "response"]
            /\ transmit(c)
    /\ UNCHANGED <<events, armed, log, emitted, regs, lastEmit, ws, token,
                   attempted, attempts, pinger, lastNotify, out, supply>>

errorClassDefault(method) == IF method = "ping" THEN "" ELSE "Error"

\* the error class a method passes to #outputHandlerError ("" for ping, which
\* does not look at the response)
errorClass(method) ==
    CASE method \in {"signup", "signin", "invalidate", "authenticate"} ->
           "AuthenticationError"
      [] method = "ping" -> ""
      [] OTHER -> "Error"

\* #outputHandlerError
outputHandlerError(res, Err) == IF res.error # "" THEN Err ELSE ""

Return(v) == [NoRet EXCEPT !.kind = "return", !.value = v]

\* throw new Err(message), the message a text followed by the target
Throw(Err, prefix, thing) ==
    [NoRet EXCEPT !.kind = "throw", !.err = Err, !.prefix = prefix, !.target = thing]

\* String.prototype.includes for a one-character needle
Includes(id, ch) == \E i \in DOMAIN id : id[i] = ch

\* #outputHandlerA
outputHandlerA(res, Err, prefix, thing) ==
    IF res.result.type = "array" /\ Len(res.result.rows) # 0
    THEN Return(Object(res.result.rows[1]))
    ELSE Throw(Err, prefix, thing)

outputHandlerBSingle(res, id, Err, prefix) ==
    IF outputHandlerError(res, "Error") # ""
    THEN Throw("Error", res.error, <<>>)
    ELSE outputHandlerA(res, Err, prefix, id)

\* #outputHandlerB: the record branch calls #outputHandlerA without
\* returning its value
outputHandlerB(res, id, Err, prefix) ==
    IF outputHandlerError(res, "Error") # ""
    THEN Throw("Error", res.error, <<>>)
    ELSE IF Includes(id, ":")
         THEN IF outputHandlerA(res, Err, prefix, id).kind = "throw"
              THEN outputHandlerA(res, Err, prefix, id)
              ELSE Return(Undefined)
         ELSE Return(res.result)

\* the method after "await this.#send(...)": the response is interpreted; for
\* the call of an attempt the try/catch of #init follows
CallFinish(c) ==
    /\ finishJob(c)
    /\ LET res == calls[c].got
           Err == IF calls[c].method = "ping"
                  THEN ""
                  ELSE outputHandlerError(res, errorClass(calls[c].method))
       IN  /\ calls' = [calls EXCEPT ![c].pc = IF Err # "" THEN "failed" ELSE "done",
                                     ![c].err = Err,
                                     ![c].msg = IF Err # "" THEN res.error ELSE ""]
           /\ token' = IF Err = "" /\ calls[c].method \in {"signin", "signup"}
                       THEN res.result
                       ELSE token
           /\ attempts' = IF calls[c].owner = "attempt"
                          THEN [attempts EXCEPT ![calls[c].att].state =
                                                    attemptSettles(Err # "")]
                          ELSE attempts
    /\ UNCHANGED <<hubVars, ws, attempted, wire, pinger, lastNotify,
                   out, supply>>

\* the transport reports open: the two "open" handlers of connect, and the
\* Socket's ready promise resolves
WsOpen ==
    /\ ws.made /\ ws.status = "CONNECTING"
    /\ ~JobPending
    /\ token' = token
    /\ init("open")
    /\ LET s1 == emit(HubState, "open", NoMsg)
           s2 == IF s1.thrown THEN s1 ELSE emit(s1, "opened", NoMsg)
       IN  /\ SetHub(s2)
           /\ pinger' = IF s2.thrown THEN pinger ELSE TRUE
    /\ ws' = [ws EXCEPT !.status = "CONNECTED", !.ready = TRUE]
    /\ UNCHANGED <<regs, lastEmit, calls, wire, lastNotify, out, supply>>

\* the transport reports close: the "close" handler of connect; the Socket
\* makes a new ready promise, and what the peer still held is gone
WsClose ==
    /\ ws.made /\ ws.status = "CONNECTED"
    /\ ~JobPending
    /\ emitted["close"] < MaxOpens
    /\ LET s1 == emit(HubState, "close", NoMsg)
           s2 == IF s1.thrown THEN s1 ELSE emit(s1, "closed", NoMsg)
       IN  /\ SetHub(s2)
           /\ pinger' = IF s2.thrown THEN pinger ELSE FALSE
    /\ ws' = [ws EXCEPT !.status = "NOT_CONNECTED", !.ready = FALSE]
    /\ wire' = {}
    /\ calls' = [c \in DOMAIN calls |->
                   IF calls[c].pc = "response" /\ calls[c].got = NoMsg
                   THEN [calls[c] EXCEPT !.orphan = TRUE]
                   ELSE calls[c]]
    /\ UNCHANGED <<regs, lastEmit, token, attempted, attempts, lastNotify,
                   out, supply>>

\* the Socket opens again after a close
WsReconnect ==
    /\ ws.made /\ ws.status = "NOT_CONNECTED"
    /\ ~JobPending
    /\ OpenRoom
    /\ ws' = [ws EXCEPT !.status = "CONNECTING"]
    /\ UNCHANGED <<hubVars, token, attempted, attempts, calls, wire, pinger,
                   lastNotify, out, supply>>

RECURSIVE forEachParam(_, _, _)
\* d.params.forEach((r) => this.emit("notify", r))
forEachParam(st, params, i) ==
    IF st.thrown \/ i > Len(params)
    THEN st
    ELSE forEachParam(emit(st, "notify", params[i]), params, i + 1)

\* the "message" handler of connect, d = JSON.parse(e.data)
onMessage(st, d) ==
    IF d.method # "notify"
    THEN emit(st, messageKey(d), d)
    ELSE forEachParam(st, d.params, 1)

\* what the handler's run leaves in the promises of the calls
SetGot(st) == calls' = [c \in DOMAIN calls |-> [calls[c] EXCEPT !.got = st.got[c]]]

\* the peer answers the envelope of call c, with a result or an error
WsResponse(c, v) ==
    /\ c \in wire
    /\ ~JobPending
    /\ LET d == Message(Guid(c), "",
                        IF v = "err" THEN "denied" ELSE "",
                        IF v = "err" THEN ""
                        ELSE IF calls[c].method \in {"signin", "signup"}
                             THEN "t2" ELSE "r",
                        <<>>)
           st == onMessage(HubState, d)
       IN  SetHub(st) /\ SetGot(st)
    /\ wire' = wire \ {c}
    /\ UNCHANGED <<regs, lastEmit, ws, token, attempted, attempts, pinger,
                   lastNotify, out, supply>>

\* the keys no outstanding call listens under: ids that are unknown or
\* already answered, and every other string the peer may put into id
StrayKeys ==
    Keys \ {Guid(c) : c \in {x \in DOMAIN calls :
                                calls[x].pc = "response" /\ calls[x].got = NoMsg}}

\* the peer sends a response whose id is the id of no outstanding call
WsStray(k) ==
    /\ k \in StrayKeys
    /\ ws.made /\ ws.status = "CONNECTED"
    /\ ~JobPending
    /\ lastEmit.no < MaxEmits
    /\ LET st == onMessage(HubState, Message(k, "", "", "r", <<>>))
       IN  /\ SetHub(st) /\ SetGot(st)
           /\ lastEmit' = [no |-> lastEmit.no + 1, key |-> k,
                           on |-> events[k], once |-> eventsOnce[k],
                           from |-> Len(log), threw |-> st.thrown]
    /\ UNCHANGED <<regs, ws, token, attempted, attempts, wire, pinger,
                   lastNotify, out, supply>>

ParamLists == UNION {[1..k -> Notifications] : k \in 0..MaxParams}

\* the peer pushes a notify message
WsNotify(params) ==
    /\ ws.made /\ ws.status = "CONNECTED"
    /\ ~JobPending
    /\ lastNotify.no < MaxNotify
    /\ LET st == onMessage(HubState, Message("", "notify", "", "", params))
       IN  SetHub(st) /\ SetGot(st)
    /\ lastNotify' = [no |-> lastNotify.no + 1, params |-> params,
                      from |-> Len(log), subs |-> events["notify"]]
    /\ UNCHANGED <<regs, lastEmit, ws, token, attempted, attempts, wire, pinger,
                   out, supply>>

\* new Surreal(): no url, no token
Init == InitEmitter /\ InitClient

Job ==
    \/ \E a \in DOMAIN attempts : AttemptRun(a)
    \/ \E c \in DOMAIN calls : CallReady(c)
    \/ \E c \in DOMAIN calls : CallAttempted(c)
    \/ \E c \in DOMAIN calls : CallFinish(c)

Transport ==
    \/ WsOpen
    \/ WsClose
    \/ WsReconnect
    \/ \E c \in DOMAIN calls, v \in {"ok", "err"} : WsResponse(c, v)

User ==
    \/ Connect
    \/ \E t \in Tokens \cup {""} : SetToken(t)
    \/ \E m \in UserMethods : Call(m)
    \/ \E t \in Tokens : Authenticate(t)

Next == Job \/ Transport \/ User

Spec == Init /\ [][Next]_vars

\* the client with subscribers of "notify" and a peer that pushes notifications
NextNotify ==
    \/ Job
    \/ Connect
    \/ WsOpen
    \/ Call("query")
    \/ \E c \in DOMAIN calls, v \in {"ok", "err"} : WsResponse(c, v)
    \/ \E n \in ListenerIds, b \in {"ok", "throw"} : Subscribe(n, b)
    \/ \E n \in ListenerIds, b \in {"ok", "throw"} : SubscribeOnce(n, b)
    \/ \E params \in ParamLists : WsNotify(params)

SpecNotify == Init /\ [][NextNotify]_vars

\* what a connection that stays up owes: the open it is making, and the
\* answers to the envelopes the peer holds
Deliver ==
    \/ WsOpen
    \/ \E c \in DOMAIN calls, v \in {"ok", "err"} : WsResponse(c, v)

\* the job queue runs every job and the transport delivers; closes and
\* reconnections may or may not happen
FairSpec == Spec /\ WF_vars(Job) /\ WF_vars(Deliver)

MaxLifeListeners == 2

LifeListenerIds == 1..MaxLifeListeners

\* the client with listeners of its lifecycle events, over closes and
\* reconnections
NextLife ==
    \/ Job
    \/ Deliver
    \/ WsClose
    \/ WsReconnect
    \/ Connect
    \/ SetToken("t1")
    \/ Call("query")
    \/ \E k \in LifecycleKeys, n \in LifeListenerIds :
          \E b \in {"ok", "throw"} : Listen(k, n, b)

SpecLife == Init /\ [][NextLife]_vars

\* the client with subscribers of "notify" and a peer that also sends
\* responses nobody waits for
NextStray ==
    \/ Job
    \/ Deliver
    \/ Connect
    \/ Call("query")
    \/ \E n \in ListenerIds, b \in {"ok", "throw"} : Subscribe(n, b)
    \/ \E n \in ListenerIds, b \in {"ok", "throw"} : SubscribeOnce(n, b)
    \/ \E k \in Ids \cup {"notify"} : WsStray(k)

SpecStray == Init /\ [][NextStray]_vars

\* the methods that change what the peer holds about who is signed in
AuthMethods == {"signup", "signin", "invalidate"}

\* the client used for signing up, in and out on one connection
NextAuth ==
    \/ Job
    \/ Deliver
    \/ Connect
    \/ \E m \in AuthMethods : Call(m)
    \/ Authenticate("t1")

SpecAuth == Init /\ [][NextAuth]_vars

\* the client signing in and out over closes and reconnections; guid() hands
\* out one id more, for the attempt of the last open. The token property is
\* assigned while the client has a live socket, so that every assignment
\* leaves an attempt behind
InitReauth ==
    /\ InitEmitter /\ InitSurreal
    /\ token = "" /\ out = NoOut /\ supply = MaxCalls + 1

NextReauth ==
    \/ Job
    \/ Deliver
    \/ WsClose
    \/ WsReconnect
    \/ Connect
    \/ status # "NOT_CONNECTED" /\ SetToken("t1")
    \/ Call("signin")
    \/ Call("invalidate")
    \/ Authenticate("t1")

SpecReauth == InitReauth /\ [][NextReauth]_vars

----------------------------------------------------------------------------
(* SpecOut: a record method called with a target, and the response to it *)
RecordMethods == {"select", "create", "update", "change", "modify", "delete"}

Chars == {"p", ":"}

Rows == {"r1", "r2"}

Things == UNION {[1..k -> Chars] : k \in 0..MaxThingLen}

\* ResultOk with an array or with a value that is no array, and ResultErr
Responses ==
    {[error |-> "", result |-> Array(rows)] :
        rows \in UNION {[1..k -> Rows] : k \in 0..MaxRows}}
    \cup {[error |-> "", result |-> Object(r)] : r \in Rows}
    \cup {[error |-> "denied", result |-> Undefined]}

InitOut ==
    /\ InitEmitter /\ InitSurreal /\ token = "" /\ supply = MaxCalls
    /\ out \in {[NoOut EXCEPT !.phase = "called", !.method = m, !.thing = t,
                              !.res = r] :
                    m \in RecordMethods, t \in Things, r \in Responses}

\* the method called returns or throws ret
Returns(ret) ==
    /\ out.phase = "called"
    /\ out' = [out EXCEPT !.phase = "returned", !.ret = ret]
    /\ UNCHANGED <<hubVars, ws, token, attempted, attempts, calls, wire, pinger,
                   lastNotify, supply>>

select ==
    /\ out.method = "select"
    /\ Returns(outputHandlerB(out.res, out.thing, "RecordError",
               "Record not found: "))

create ==
    /\ out.method = "create"
    /\ Returns(IF outputHandlerError(out.res, "Error") # ""
               THEN Throw("Error", out.res.error, <<>>)
               ELSE outputHandlerA(out.res, "PermissionError",
                                   "Unable to create record: ", out.thing))

update ==
    /\ out.method = "update"
    /\ Returns(outputHandlerB(out.res, out.thing, "PermissionError",
               "Unable to update record: "))

change ==
    /\ out.method = "change"
    /\ Returns(outputHandlerB(out.res, out.thing, "PermissionError",
               "Unable to update record: "))

modify ==
    /\ out.method = "modify"
    /\ Returns(outputHandlerB(out.res, out.thing, "PermissionError",
               "Unable to update record: "))

delete ==
    /\ out.method = "delete"
    /\ Returns(IF outputHandlerError(out.res, "Error") # ""
               THEN Throw("Error", out.res.error, <<>>)
               ELSE Return(Undefined))

NextOut == select \/ create \/ update \/ change \/ modify \/ delete

SpecOut == InitOut /\ [][NextOut]_vars

----------------------------------------------------------------------------
(* Claims about the client, checked under Spec and FairSpec *)

\* the envelope of call c was handed to the transport
Transmitted(c) ==
    \/ calls[c].pc = "response"
    \/ calls[c].pc \in {"done", "failed"} /\ calls[c].got # NoMsg

\* call c is outstanding: envelope transmitted, no response received
Outstanding(c) == calls[c].pc = "response" /\ calls[c].got = NoMsg

\* C1: each call resolves with exactly the inbound envelope whose id equals
\* its own id, whatever the order in which the responses arrive.
C1_ResponseMatchesCall ==
    \A c \in DOMAIN calls : calls[c].got # NoMsg => calls[c].got.id = Guid(c)

\* two calls outstanding together, the later one answered first
C1_Witness ==
    \E c1, c2 \in DOMAIN calls :
        /\ c1 < c2
        /\ Outstanding(c1) /\ c1 \in wire
        /\ calls[c2].got # NoMsg /\ calls[c2].got.id = Guid(c2)

\* C2: a call that was outstanding when the transport closed eventually
\* fails; it does not stay pending forever.
Orphaned(c) == c \in DOMAIN calls /\ calls[c].orphan

Failed(c) == c \in DOMAIN calls /\ calls[c].pc = "failed"

C2_DisconnectFailsOutstanding ==
    \A c \in 1..MaxCalls : [](Orphaned(c) => <>Failed(c))

\* C3: no call sent with waitForReady = true transmits its envelope while the
\* most recently started re-assertion attempt is still pending.
C3_NoSendWhileReasserting ==
    [][\A c \in DOMAIN calls :
          (calls[c].wait /\ calls[c].pc = "attempted" /\ calls'[c].pc = "response")
              => (attempted = 0 \/ attempts[attempted].state = "settled")]_vars

\* the calls made by attempt a
CallsOf(a) == {c \in DOMAIN calls : calls[c].owner = "attempt" /\ calls[c].att = a}

\* call c goes from not transmitted to transmitted in this step
Transmits(c) == ~Transmitted(c) /\ Transmitted(c)'

\* attempt a runs its body in this step
Runs(a) == attempts[a].state = "scheduled" /\ attempts'[a].state # "scheduled"

\* an assignment of the token starts (or does not start) an attempt as the
\* status says, and nothing is transmitted while the status is NOT_CONNECTED
C4_SetterStarts ==
    /\ \A t \in Tokens :
          SetToken(t) =>
              /\ status = "CONNECTED" =>
                    /\ attempted' = Len(attempts) + 1
                    /\ attempts'[attempted'].state = "scheduled"
              /\ status = "NOT_CONNECTED" =>
                    UNCHANGED <<attempted, attempts, calls>>
    /\ status = "NOT_CONNECTED" => \A c \in DOMAIN calls : ~Transmits(c)

\* C4 as stated: assigning the token while CONNECTED starts a new attempt
\* that sends an authenticate call carrying the assigned token; assigning it
\* while NOT_CONNECTED starts no attempt and sends no call until an open.
C4_TokenAssignment ==
    /\ [][C4_SetterStarts]_vars
    /\ [](\A a \in DOMAIN attempts :
            (attempts[a].origin = "token" /\ attempts[a].at = "CONNECTED"
               /\ attempts[a].tok # "" /\ attempts[a].state # "scheduled") =>
                /\ attempts[a].call # 0
                /\ calls[attempts[a].call].method = "authenticate"
                /\ calls[attempts[a].call].param = attempts[a].tok)

\* C4 amended: the attempt started by the assignment sends, when its body
\* runs, an authenticate call carrying the token stored at that moment (the
\* assigned token unless it was assigned again before), and none if the
\* token is then empty.
C4_TokenAssignmentAmended ==
    /\ [][C4_SetterStarts]_vars
    /\ [][\A a \in DOMAIN attempts :
            (attempts[a].origin = "token" /\ Runs(a)) =>
                IF token = ""
                THEN attempts'[a].call = 0 /\ calls' = calls
                ELSE /\ attempts'[a].call = Len(calls) + 1
                     /\ calls'[attempts'[a].call].method = "authenticate"
                     /\ calls'[attempts'[a].call].param = token
                     /\ (token = attempts[a].tok =>
                            calls'[attempts'[a].call].param = attempts[a].tok)]_vars

\* an attempt started by an assignment while CONNECTED has transmitted its
\* authenticate envelope, which carries the assigned token
C4_Witness ==
    \E a \in DOMAIN attempts :
        /\ attempts[a].origin = "token" /\ attempts[a].at = "CONNECTED"
        /\ attempts[a].call # 0
        /\ Transmitted(attempts[a].call)
        /\ calls[attempts[a].call].param = attempts[a].tok

NotifySubs == lastNotify.subs

\* what the last notify message made the persistent subscribers receive
NotifyDelivered ==
    SelectSeq(SubSeq(log, lastNotify.from + 1, Len(log)),
              LAMBDA e : \E i \in DOMAIN NotifySubs : NotifySubs[i].n = e.l)

\* every element to every subscriber: elements in the order of params, and
\* for each element the subscribers in subscription order
NotifyExpected ==
    [j \in 1..(Len(lastNotify.params) * Len(NotifySubs)) |->
        [l   |-> NotifySubs[((j - 1) % Len(NotifySubs)) + 1].n,
         key |-> "notify",
         arg |-> lastNotify.params[((j - 1) \div Len(NotifySubs)) + 1]]]

\* C8: a notify message hands each element of params exactly once to every
\* notify subscriber, elements in order and subscribers in subscription
\* order for each element, and resolves no outstanding call.
C8_NotifyFanOut ==
    /\ lastNotify.no > 0 => NotifyDelivered = NotifyExpected
    /\ \A c \in DOMAIN calls : calls[c].got.method # "notify"

\* C13: a call made on a client on which connect was never called fails at
\* once with the usage error and transmits nothing.
C13_UsageErrorBeforeConnect ==
    ~ws.made =>
        \A c \in DOMAIN calls :
            /\ calls[c].pc = "failed"
            /\ calls[c].err = "Error" /\ calls[c].msg = UsageMessage
            /\ ~Transmitted(c)

\* attempt a has made its authenticate call and waits for its result
Pending(a) == a \in DOMAIN attempts /\ attempts[a].state = "auth"

\* attempt a has settled
Settled(a) == a \in DOMAIN attempts /\ attempts[a].state = "settled"

\* the peer will not answer the call of attempt a: the connection that
\* carried its envelope closed
Unanswered(a) == a \in DOMAIN attempts /\ Orphaned(attempts[a].call)

\* call c is inside wait(), at "await this.#attempted"
Waiting(c) == c \in DOMAIN calls /\ calls[c].pc = "attempted"

\* C15: an authenticate call never waits for an attempt: with the transport
\* ready it is transmitted, an attempt pending or not; so a pending attempt
\* whose call the peer answers settles, and a wait() that waits for it
\* resolves.
C15_AuthenticateBypassesWait ==
    /\ [](\A c \in DOMAIN calls :
             calls[c].method = "authenticate" => ~calls[c].wait /\ ~Waiting(c))
    /\ [][\A c \in DOMAIN calls :
             (calls[c].method = "authenticate" /\ readyJob(c) /\ CallReady(c))
                 => Transmits(c)]_vars
    /\ \A a \in 1..MaxAttempts : Pending(a) ~> (Settled(a) \/ Unanswered(a))
    /\ \A c \in 1..MaxCalls :
          Waiting(c) ~> (~Waiting(c) \/ Unanswered(calls[c].awaited))

\* an attempt is pending, and the authenticate the user called after the
\* attempt made its own call has been transmitted
C15_Witness ==
    \E a \in DOMAIN attempts, c \in DOMAIN calls :
        /\ Pending(a) /\ attempted = a
        /\ calls[c].owner = "user" /\ calls[c].method = "authenticate"
        /\ c > attempts[a].call
        /\ Transmitted(c) /\ calls[c].pc = "response"

\* the calls whose promise is resolved in this step
Resolves == {c \in DOMAIN calls : calls[c].got = NoMsg /\ calls'[c].got # NoMsg}

\* C16: a response resolves at most one outstanding call and no call is
\* resolved twice; a response whose id is the id of no outstanding call
\* resolves no call, raises no error and leaves the listeners as they were.
C16_StrayResponseIsNoOp ==
    /\ [][Cardinality(Resolves) <= 1]_vars
    /\ [][\A c \in DOMAIN calls :
             calls[c].got # NoMsg => calls'[c].got = calls[c].got]_vars
    /\ [][\A k \in Keys :
             WsStray(k) => /\ UNCHANGED <<events, eventsOnce, calls, log>>
                           /\ ~lastEmit'.threw]_vars

\* the one-shot listener of call c is registered under its id
Listening(c) == Resolver(c) \in Range(eventsOnce[Guid(c)])

\* C18: from the moment the envelope of a call is transmitted its one-shot
\* listener is registered, so the response, whenever it arrives, resolves
\* the call.
C18_ResponseNeverLost ==
    /\ [](\A c \in wire : Listening(c))
    /\ [][\A c \in DOMAIN calls :
             Transmits(c) => Resolver(c) \in Range(eventsOnce'[Guid(c)])]_vars
    /\ [][\A c \in DOMAIN calls, v \in {"ok", "err"} :
             WsResponse(c, v) =>
                 /\ calls[c].got = NoMsg
                 /\ calls'[c].got.id = Guid(c)]_vars

\* a call has run to its end on the response that came for it, and its
\* listener is gone
C18_Witness ==
    \E c \in DOMAIN calls :
        /\ calls[c].pc = "done"
        /\ calls[c].got.id = Guid(c)
        /\ ~Listening(c)

----------------------------------------------------------------------------
(* Claims about result shaping, checked under SpecOut *)
SingleOrSequence == {"select", "update", "change", "modify"}

\* a method of SingleOrSequence has returned on a non-error response
Shaped == out.phase = "returned" /\ out.method \in SingleOrSequence
            /\ out.res.error = ""

\* C9: with a record-form target and a non-error response, a non-empty
\* result sequence makes the call return its first element, an empty one
\* makes it fail with an error whose message names the target (RecordError
\* for select).
C9_RecordFormSingleOrThrow ==
    (Shaped /\ Includes(out.thing, ":") /\ out.res.result.type = "array") =>
        IF Len(out.res.result.rows) # 0
        THEN out.ret = Return(Object(out.res.result.rows[1]))
        ELSE /\ out.ret.kind = "throw"
             /\ out.ret.target = out.thing
             /\ out.method = "select" => out.ret.err = "RecordError"

\* C10: with a table-form target and a non-error response the call returns
\* the result of the response unmodified, an empty sequence included, and
\* does not fail.
C10_TableFormUnmodified ==
    (Shaped /\ ~Includes(out.thing, ":")) => out.ret = Return(out.res.result)

\* select of a table answered with an empty sequence has returned it
C10_Witness ==
    /\ Shaped /\ out.method = "select"
    /\ out.thing = <<"p">>
    /\ out.res.result = Array(<<>>)
    /\ out.ret.kind = "return" /\ out.ret.value = Array(<<>>)

Mutating == {"create", "update", "change", "modify", "delete"}

\* C11: a record-mutating method answered with the error variant fails with
\* a PermissionError that carries the message of the peer.
C11_MutationErrorIsPermissionError ==
    (out.phase = "returned" /\ out.method \in Mutating /\ out.res.error # "") =>
        /\ out.ret.kind = "throw"
        /\ out.ret.err = "PermissionError"
        /\ out.ret.prefix = out.res.error

----------------------------------------------------------------------------
(* Claims about signing in and out, checked under SpecAuth and SpecReauth *)
AuthOperations == AuthMethods \cup {"authenticate"}

\* the peer answered call c with the error variant and the method has run
\* to its end
Rejected(c) ==
    /\ calls[c].method \in AuthOperations
    /\ calls[c].got # NoMsg /\ calls[c].got.error # ""
    /\ calls[c].pc # "response"

\* C12: an auth operation answered with the error variant fails with an
\* AuthenticationError that carries the message of the peer; the promise
\* that fails is the one its direct caller holds.
C12_AuthErrorIsAuthenticationError ==
    \A c \in DOMAIN calls :
        Rejected(c) =>
            /\ calls[c].pc = "failed"
            /\ calls[c].err = "AuthenticationError"
            /\ calls[c].msg = calls[c].got.error

\* the user's invalidate and the user's authenticate were both rejected
C12_Witness ==
    \E c1, c2 \in DOMAIN calls :
        /\ Rejected(c1) /\ calls[c1].method = "invalidate"
        /\ Rejected(c2) /\ calls[c2].method = "authenticate"
        /\ calls[c1].err = "AuthenticationError"
        /\ calls[c2].err = "AuthenticationError"

----------------------------------------------------------------------------
(* Claims about the lifecycle events, checked under SpecLife *)

\* what the listeners logged in this step has no "opened" before an "open"
\* and no "closed" before a "close"
InOrder(first, second) ==
    \A i, j \in (Len(log) + 1)..Len(log') :
        i < j => ~(log'[i].key = second /\ log'[j].key = first)

\* the transport's open signal: attempt started, then open, then opened
\* published, then the keepalive started
OpenSequence ==
    /\ attempted' = Len(attempts) + 1
    /\ attempts'[attempted'].state = "scheduled"
    /\ attempts'[attempted'].no = emitted["open"]
    /\ emitted'["open"] = emitted["open"] + 1
    /\ emitted'["opened"] = emitted["opened"] + 1
    /\ InOrder("open", "opened")
    /\ pinger'

\* the transport's close signal: close, then closed published, then the
\* keepalive stopped
CloseSequence ==
    /\ emitted'["close"] = emitted["close"] + 1
    /\ emitted'["closed"] = emitted["closed"] + 1
    /\ InOrder("close", "closed")
    /\ ~pinger'

\* C14: every open signal produces the open sequence and every close signal
\* the close sequence, so that the keepalive runs only between an open
\* signal and the next close signal.
C14_LifecycleOrder ==
    /\ [][WsOpen => OpenSequence]_vars
    /\ [][WsClose => CloseSequence]_vars
    /\ [](pinger => status = "CONNECTED")

\* call c of the user is the only one that stored a token: the client was
\* made without one, the token was never assigned, no other authenticate
\* was called and no signup or signin has succeeded
OnlyStore(c) ==
    /\ calls[c].owner = "user" /\ calls[c].method = "authenticate"
    /\ \A a \in DOMAIN attempts : attempts[a].origin # "token"
    /\ \A d \in DOMAIN calls \ {c} :
          \/ calls[d].owner = "attempt"
          \/ calls[d].method = "invalidate"
          \/ calls[d].method \in {"signup", "signin"} /\ calls[d].pc # "done"

\* C19: when the peer rejects a signup, signin or authenticate, the stored
\* token is afterwards what it was before the call: a rejected signup or
\* signin stores nothing, and after a rejected authenticate that alone
\* stored a token the client has none, as before it.
C19_RejectedLeavesToken ==
    /\ [][\A c \in DOMAIN calls :
             (/\ CallFinish(c)
              /\ calls[c].method \in {"signup", "signin"}
              /\ calls[c].got.error # "") => token' = token]_vars
    /\ [](\A c \in DOMAIN calls : (Rejected(c) /\ OnlyStore(c)) => token = "")

\* invalidate call d has succeeded: the peer answered without the error
\* variant and the method returned
Invalidated(d) ==
    /\ calls[d].owner = "user" /\ calls[d].method = "invalidate"
    /\ calls[d].pc = "done" /\ calls[d].err = ""

\* no token was stored after invalidate call d was made: no authenticate of
\* the user after it, no signup or signin that succeeded, and no assignment to
\* the token property that called #init after it
NoStoreSince(d) ==
    /\ \A a \in DOMAIN attempts :
          attempts[a].origin = "token" =>
             attempts[a].call # 0 /\ attempts[a].call < d
    /\ \A c \in DOMAIN calls \ {d} :
          \/ calls[c].owner = "attempt"
          \/ calls[c].method = "invalidate"
          \/ calls[c].method = "authenticate" /\ c < d
          \/ /\ calls[c].method \in {"signup", "signin"}
             /\ c < d
             /\ calls[c].pc \in {"done", "failed"} /\ calls[c].err # ""

\* C20: once an invalidate has succeeded and no token was stored since, the
\* attempt of a later transport open sends no authenticate call: the body of
\* that attempt leaves the calls as they are.
C20_InvalidateStopsReassertion ==
    [][\A a \in DOMAIN attempts :
          (/\ AttemptRun(a)
           /\ attempts[a].origin = "open"
           /\ \E d \in DOMAIN calls : Invalidated(d) /\ NoStoreSince(d))
             => calls' = calls]_vars

====
